---- MODULE Spec2Model ----
(***************************************************************************)
(* A model of chroma's emitters (emitters.go) and of the XML serialisation *)
(* of rules (serialise.go).                                                *)
(*                                                                         *)
(* Spec     : emitters are constructed (ByGroups, ByGroupNames,            *)
(*            UsingByGroup, Using, UsingSelf) and then applied to matches. *)
(* SpecSer  : rules are marshalled to XML and unmarshalled again.          *)
(*                                                                         *)
(* Go slices are 0-based, TLA+ sequences 1-based: Go's groups[i] is        *)
(* groups[i+1] here, Go's b.Emitters[i] (i from 0) is Emitters[i+1].       *)
(***************************************************************************)
EXTENDS Integers, Sequences, FiniteSets, TLC

VARIABLES emitter,  \* the Emitter value last constructed
          groups,   \* the groups of the match last handed to Emit
          state,    \* the *LexerState last handed to Emit
          result,   \* what that Emit call did
          rule,     \* serialisation: the Rule being marshalled
          data,     \* serialisation: the outcome of xml.Marshal
          actual    \* serialisation: the outcome of xml.Unmarshal

vars == <<emitter, groups, state, result, rule, data, actual>>

(***************************************************************************)
(* Bounds and input universes.                                             *)
(***************************************************************************)
\* the largest number of capture groups of a match, and of emitters supplied
MaxGroups == 2

GroupTexts == {"a", "b"}

\* names a regex can give its capture groups (GroupNameFromNumber)
AllNames == <<"x", "y", "z", "w">>

SeqsOfLen(S, n) == [1..n -> S]

SeqsUpTo(S, n) == UNION {SeqsOfLen(S, k) : k \in 0..n}

Gap(gap, i) == IF gap = i THEN "-" ELSE ""

RECURSIVE JoinFrom(_, _, _)
JoinFrom(texts, gap, i) ==
    IF i > Len(texts) THEN Gap(gap, i)
    ELSE Gap(gap, i) \o texts[i] \o JoinFrom(texts, gap, i + 1)

\* A match: group 0 (the whole match) followed by the capture groups, which
\* are disjoint substrings of group 0 in order; gap = 0 means the capture
\* groups tile the match, gap = k puts unmatched-by-any-group text before
\* group k (after the last group for k = N+1).
Matches ==
    {<<JoinFrom(t, g, 1)>> \o t : t \in SeqsUpTo(GroupTexts, MaxGroups),
                                  g \in 0..(MaxGroups + 1)}

NumGroups(gs) == Len(gs) - 1

(***************************************************************************)
(* Tokens, iterators, lexers.                                              *)
(***************************************************************************)
Token(t, v) == [Type |-> t, Value |-> v]

\* An Iterator is a func() Token; a valid one is modelled by the tokens it
\* yields before EOF, the nil func value by NilIterator.
Iterator(toks) == [valid |-> TRUE, toks |-> toks]

NilIterator == [valid |-> FALSE, toks |-> <<>>]

\* TokenType.Emit: the whole of groups[0] becomes one token of the type.
TokenTypeEmit(t, gs) == <<Token(t, gs[1])>>

\* Concaterator: yields the tokens of each iterator in turn.  Calling a nil
\* func value panics, so the stream aborts at the first nil slot.
RECURSIVE Concaterator(_)
Concaterator(its) ==
    IF its = <<>> THEN [tokens |-> <<>>, aborted |-> FALSE]
    ELSE IF ~Head(its).valid THEN [tokens |-> <<>>, aborted |-> TRUE]
    ELSE LET rest == Concaterator(Tail(its))
         IN  [tokens |-> Head(its).toks \o rest.tokens, aborted |-> rest.aborted]

Lexers == {"good", "bad"}

NilLexer == "nil"

\* Lexer.Tokenise: an error, or an iterator over the tokens of the text.
Tokenise(lexer, text) ==
    IF lexer = "bad" THEN [err |-> "tokenise failed", it |-> NilIterator]
    ELSE [err |-> "", it |-> Iterator(<<Token("Other", text)>>)]

(***************************************************************************)
(* Emitter values.                                                         *)
(***************************************************************************)
NoEmitter == [kind |-> "none"]

NilEmitter == [kind |-> "nil"]

TokenType(t) == [kind |-> "token", type |-> t]

TokenTypes == {"Text", "Keyword"}

byGroupsEmitter(es) == [kind |-> "bygroups", Emitters |-> es]

\* the emitters a grammar nests in ByGroups / ByGroupNames / UsingByGroup
SubEmitters ==
    {NilEmitter} \cup {TokenType(t) : t \in TokenTypes}
                 \cup {byGroupsEmitter(<<TokenType("Text")>>)}

\* one call made by Emit: fn is "Emit" (nested emitter number who, or the one
\* under map key key), "Error.Emit", "Get" (the sublexer resolver) or
\* "Tokenise" (on lexer key, with start state opt; "nil" for nil options)
Call(fn, who, key, arg, opt) ==
    [fn |-> fn, who |-> who, key |-> key, arg |-> arg, opt |-> opt]

\* what one Emit call did: the iterators handed to Concaterator, the calls
\* made on the way, the panic raised by Emit itself ("" for none), and what
\* the returned iterator yields when it is read to its end.
EmitResult(its, calls) ==
    [iterators |-> its, calls |-> calls, panic |-> "",
     tokens |-> Concaterator(its).tokens, aborted |-> Concaterator(its).aborted]

EmitPanic(msg, calls) ==
    [iterators |-> <<>>, calls |-> calls, panic |-> msg,
     tokens |-> <<>>, aborted |-> FALSE]

NoResult == [iterators |-> <<>>, calls |-> <<>>, panic |-> "none",
             tokens |-> <<>>, aborted |-> FALSE]

RECURSIVE byGroupsEmitter_Emit(_, _, _)
RECURSIVE EmitterEmit(_, _, _)
RECURSIVE byGroupsLoop(_, _, _, _, _)

\* Emitter.Emit on a nested emitter: the tokens its iterator yields.
EmitterEmit(e, gs, st) ==
    IF e.kind = "token" THEN TokenTypeEmit(e.type, gs)
    ELSE byGroupsEmitter_Emit(e, gs, st).tokens

RECURSIVE byGroupsLoop_wholeMatch(_, _, _, _, _)
\* every emitter is handed the groups of the whole match, not its own group
byGroupsLoop_wholeMatch(b, gs, st, i, acc) ==
    IF i > NumGroups(gs) THEN acc
    ELSE IF b.Emitters[i] # NilEmitter
         THEN byGroupsLoop_wholeMatch(b, gs, st, i + 1,
                  [its   |-> Append(acc.its,
                                Iterator(EmitterEmit(b.Emitters[i], gs, st))),
                   calls |-> Append(acc.calls, Call("Emit", i, "", gs, ""))])
         ELSE byGroupsLoop_wholeMatch(b, gs, st, i + 1, acc)

\* for i, group := range groups[1:] { if b.Emitters[i] != nil { append } }
byGroupsLoop(b, gs, st, i, acc) ==
    IF i > NumGroups(gs) THEN acc
    ELSE IF b.Emitters[i] # NilEmitter
         THEN byGroupsLoop(b, gs, st, i + 1,
                  [its   |-> Append(acc.its,
                                Iterator(EmitterEmit(b.Emitters[i], <<gs[i + 1]>>, st))),
                   calls |-> Append(acc.calls, Call("Emit", i, "", <<gs[i + 1]>>, ""))])
         ELSE byGroupsLoop(b, gs, st, i + 1, acc)

\* the panic that the source has commented out
byGroupsEmitter_Emit_panics(b, gs, st) ==
    IF Len(b.Emitters) # Len(gs) - 1
    THEN EmitPanic("number of groups does not match number of emitters", <<>>)
    ELSE LET r == byGroupsLoop(b, gs, st, 1, [its |-> <<>>, calls |-> <<>>])
         IN  EmitResult(r.its, r.calls)

\* the Error token of a mismatch covers the first capture group only
byGroupsEmitter_Emit_firstGroup(b, gs, st) ==
    IF Len(b.Emitters) # Len(gs) - 1
    THEN EmitResult(<<Iterator(TokenTypeEmit("Error", Tail(gs) \o <<"">>))>>,
                    <<Call("Error.Emit", 0, "", gs, "")>>)
    ELSE LET r == byGroupsLoop(b, gs, st, 1, [its |-> <<>>, calls |-> <<>>])
         IN  EmitResult(r.its, r.calls)

byGroupsEmitter_Emit(b, gs, st) ==
    IF Len(b.Emitters) # Len(gs) - 1
    THEN EmitResult(<<Iterator(TokenTypeEmit("Error", gs))>>,
                    <<Call("Error.Emit", 0, "", gs, "")>>)
    ELSE LET r == byGroupsLoop(b, gs, st, 1, [its |-> <<>>, calls |-> <<>>])
         IN  EmitResult(r.its, r.calls)

(***************************************************************************)
(* LexerState: the named groups of the current match (name -> text, the    *)
(* whole match under "0"), the group names of the regex of the rule that   *)
(* matched (state.Rules[state.State][state.Rule].Regexp), and the lexer.   *)
(***************************************************************************)
NoState == [NamedGroups |-> <<>>, GroupNames |-> <<>>, Lexer |-> NilLexer]

Range(f) == {f[i] : i \in DOMAIN f}

IndexOf(names, n) == CHOOSE i \in DOMAIN names : names[i] = n

LexerState(gs, names, lexer) ==
    [NamedGroups |-> [n \in {"0"} \cup Range(names) |->
                         IF n = "0" THEN gs[1] ELSE gs[IndexOf(names, n) + 1]],
     GroupNames  |-> names,
     Lexer       |-> lexer]

\* the regex names its N groups in declaration order or the other way round
Namings(n) == {[i \in 1..n |-> AllNames[i]], [i \in 1..n |-> AllNames[n + 1 - i]]}

GroupNameFromNumber(st, i) == st.GroupNames[i]

(***************************************************************************)
(* byGroupNamesEmitter                                                     *)
(***************************************************************************)
byGroupNamesEmitter(m) == [kind |-> "bygroupnames", Emitters |-> m]

RECURSIVE byGroupNamesLoop_skipsMissing(_, _, _, _)
\* a group whose name has no entry in the map is skipped like a nil entry
byGroupNamesLoop_skipsMissing(b, st, i, acc) ==
    IF ~(i < Cardinality(DOMAIN st.NamedGroups)) THEN acc
    ELSE LET groupName == GroupNameFromNumber(st, i)
             group     == st.NamedGroups[groupName]
         IN  IF groupName \in DOMAIN b.Emitters /\ b.Emitters[groupName] # NilEmitter
             THEN byGroupNamesLoop_skipsMissing(b, st, i + 1,
                    [its   |-> Append(acc.its,
                                 Iterator(EmitterEmit(b.Emitters[groupName],
                                                      <<group>>, st))),
                     calls |-> Append(acc.calls,
                                 Call("Emit", i, groupName, <<group>>, ""))])
             ELSE byGroupNamesLoop_skipsMissing(b, st, i + 1, acc)

RECURSIVE byGroupNamesLoop(_, _, _, _)
\* for i := 1; i < len(state.NamedGroups); i++ { ... }
byGroupNamesLoop(b, st, i, acc) ==
    IF ~(i < Cardinality(DOMAIN st.NamedGroups)) THEN acc
    ELSE LET groupName == GroupNameFromNumber(st, i)
             group     == st.NamedGroups[groupName]
         IN  IF groupName \in DOMAIN b.Emitters
             THEN IF b.Emitters[groupName] # NilEmitter
                  THEN byGroupNamesLoop(b, st, i + 1,
                         [its   |-> Append(acc.its,
                                      Iterator(EmitterEmit(b.Emitters[groupName],
                                                           <<group>>, st))),
                          calls |-> Append(acc.calls,
                                      Call("Emit", i, groupName, <<group>>, ""))])
                  ELSE byGroupNamesLoop(b, st, i + 1, acc)
             ELSE byGroupNamesLoop(b, st, i + 1,
                         [its   |-> Append(acc.its,
                                      Iterator(TokenTypeEmit("Error", <<group>>))),
                          calls |-> Append(acc.calls,
                                      Call("Error.Emit", i, groupName, <<group>>, ""))])

byGroupNamesEmitter_Emit(b, gs, st) ==
    IF Cardinality(DOMAIN st.NamedGroups) - 1 = 0
    THEN IF "0" \in DOMAIN b.Emitters
         THEN IF b.Emitters["0"] = NilEmitter
              \* a method call on a nil interface value
              THEN EmitPanic("nil pointer dereference", <<>>)
              ELSE EmitResult(<<Iterator(EmitterEmit(b.Emitters["0"], gs, st))>>,
                              <<Call("Emit", 0, "0", gs, "")>>)
         ELSE EmitResult(<<Iterator(TokenTypeEmit("Error", gs))>>,
                         <<Call("Error.Emit", 0, "0", gs, "")>>)
    ELSE LET r == byGroupNamesLoop(b, st, 1, [its |-> <<>>, calls |-> <<>>])
         IN  EmitResult(r.its, r.calls)

(***************************************************************************)
(* UsingByGroup                                                            *)
(***************************************************************************)
\* the sublexer resolver (typically internal.Get): a lexer, or nil
Get(name) ==
    IF name = "a" THEN "good" ELSE IF name = "b" THEN "bad" ELSE NilLexer

\* the EmitterFunc closure UsingByGroup returns, with what it captured
usingByGroup(ng, cg, es) ==
    [kind |-> "usingbygroup", sublexerNameGroup |-> ng, codeGroup |-> cg,
     emitters |-> es]

RECURSIVE usingByGroupLoop(_, _, _, _, _, _)
\* for i, group := range groups[1:] { ... }; iterators has a slot per group
usingByGroupLoop(u, gs, st, sublexer, i, acc) ==
    IF i > NumGroups(gs) \/ acc.panic # "" THEN acc
    ELSE IF i = u.codeGroup /\ sublexer # NilLexer
         THEN LET r == Tokenise(sublexer, gs[u.codeGroup + 1])
                  calls == Append(acc.calls,
                             Call("Tokenise", i, sublexer, <<gs[u.codeGroup + 1]>>, "nil"))
              IN  IF r.err # ""
                  THEN usingByGroupLoop(u, gs, st, sublexer, i + 1,
                         [its |-> acc.its, calls |-> calls, panic |-> r.err])
                  ELSE usingByGroupLoop(u, gs, st, sublexer, i + 1,
                         [its |-> Append(acc.its, r.it), calls |-> calls, panic |-> ""])
         ELSE IF u.emitters[i] # NilEmitter
              THEN usingByGroupLoop(u, gs, st, sublexer, i + 1,
                     [its   |-> Append(acc.its,
                                  Iterator(EmitterEmit(u.emitters[i], <<gs[i + 1]>>, st))),
                      calls |-> Append(acc.calls, Call("Emit", i, "", <<gs[i + 1]>>, "")),
                      panic |-> ""])
              \* the slot made by make([]Iterator, len(groups)-1) stays nil
              ELSE usingByGroupLoop(u, gs, st, sublexer, i + 1,
                     [its   |-> Append(acc.its, NilIterator),
                      calls |-> acc.calls, panic |-> ""])

\* the soft policy of ByGroups: an Error token for a mismatch
usingByGroup_Emit_soft(u, gs, st) ==
    IF Len(u.emitters) # Len(gs) - 1
    THEN EmitResult(<<Iterator(TokenTypeEmit("Error", gs))>>,
                    <<Call("Error.Emit", 0, "", gs, "")>>)
    ELSE IF ~(u.sublexerNameGroup < Len(gs))
    THEN EmitPanic("index out of range", <<>>)
    ELSE LET name     == gs[u.sublexerNameGroup + 1]
             sublexer == Get(name)
             r == usingByGroupLoop(u, gs, st, sublexer, 1,
                    [its |-> <<>>, panic |-> "",
                     calls |-> <<Call("Get", u.sublexerNameGroup, "", <<name>>, "")>>])
         IN  IF r.panic # "" THEN EmitPanic(r.panic, r.calls)
             ELSE EmitResult(r.its, r.calls)

usingByGroup_Emit(u, gs, st) ==
    IF Len(u.emitters) # Len(gs) - 1
    THEN EmitPanic("UsingByGroup expects number of emitters to be the same as len(groups)-1",
                   <<>>)
    ELSE IF ~(u.sublexerNameGroup < Len(gs))
    THEN EmitPanic("index out of range", <<>>)
    ELSE LET name     == gs[u.sublexerNameGroup + 1]
             sublexer == Get(name)
             r == usingByGroupLoop(u, gs, st, sublexer, 1,
                    [its |-> <<>>, panic |-> "",
                     calls |-> <<Call("Get", u.sublexerNameGroup, "", <<name>>, "")>>])
         IN  IF r.panic # "" THEN EmitPanic(r.panic, r.calls)
             ELSE EmitResult(r.its, r.calls)

(***************************************************************************)
(* Using, UsingSelf                                                        *)
(***************************************************************************)
usingEmitter(name, lexer) == [kind |-> "using", Lexer |-> name, lexer |-> lexer]

usingSelfEmitter(stateName) == [kind |-> "usingself", State |-> stateName]

StateNames == {"root", "block"}

\* a failed nested run recovered as an Error token over the match
usingEmitter_Emit_recovers(u, gs, st) ==
    IF u.lexer = NilLexer THEN EmitPanic("nil pointer dereference", <<>>)
    ELSE LET r == Tokenise(u.lexer, gs[1])
             calls == <<Call("Tokenise", 0, u.lexer, <<gs[1]>>, "root")>>
         IN  IF r.err # "" THEN EmitResult(<<Iterator(TokenTypeEmit("Error", gs))>>, calls)
             ELSE EmitResult(<<r.it>>, calls)

\* it, err := u.lexer.Tokenise(&TokeniseOptions{State: "root", Nested: true}, groups[0])
\* if err != nil { panic(err) }; return it
usingEmitter_Emit(u, gs, st) ==
    IF u.lexer = NilLexer THEN EmitPanic("nil pointer dereference", <<>>)
    ELSE LET r == Tokenise(u.lexer, gs[1])
             calls == <<Call("Tokenise", 0, u.lexer, <<gs[1]>>, "root")>>
         IN  IF r.err # "" THEN EmitPanic(r.err, calls)
             ELSE EmitResult(<<r.it>>, calls)

\* it, err := state.Lexer.Tokenise(&TokeniseOptions{State: u.State, Nested: true}, groups[0])
\* if err != nil { panic(err) }; return it
usingSelfEmitter_Emit(u, gs, st) ==
    IF st.Lexer = NilLexer THEN EmitPanic("nil pointer dereference", <<>>)
    ELSE LET r == Tokenise(st.Lexer, gs[1])
             calls == <<Call("Tokenise", 0, st.Lexer, <<gs[1]>>, u.State)>>
         IN  IF r.err # "" THEN EmitPanic(r.err, calls)
             ELSE EmitResult(<<r.it>>, calls)

(***************************************************************************)
(* Actions of Spec: the constructors, and Emit on each kind of emitter.    *)
(***************************************************************************)
NoRule == [kind |-> "none"]

NoData == [err |-> "none"]

Idle == /\ rule = NoRule /\ data = NoData /\ actual = NoData

\* The emitter of the rule under test is constructed once, when the grammar
\* is built, and then applied to a match.  No constructor checks anything.
ByGroups ==
    \E es \in SeqsUpTo(SubEmitters, MaxGroups) :
        /\ emitter = NoEmitter
        /\ emitter' = byGroupsEmitter(es)
        /\ UNCHANGED <<groups, state, result, rule, data, actual>>

MapEmitters == {NilEmitter} \cup {TokenType(t) : t \in TokenTypes}

MapKeys == {"0"} \cup {AllNames[i] : i \in 1..MaxGroups}

EmitterMaps == UNION {[K -> MapEmitters] : K \in SUBSET MapKeys}

ByGroupNames ==
    \E m \in EmitterMaps :
        /\ emitter = NoEmitter
        /\ emitter' = byGroupNamesEmitter(m)
        /\ UNCHANGED <<groups, state, result, rule, data, actual>>

UsingByGroup ==
    \E ng \in 0..MaxGroups, cg \in 1..MaxGroups,
       es \in SeqsUpTo(SubEmitters, MaxGroups) :
        /\ emitter = NoEmitter
        /\ emitter' = usingByGroup(ng, cg, es)
        /\ UNCHANGED <<groups, state, result, rule, data, actual>>

Using ==
    \E l \in Lexers :
        /\ emitter = NoEmitter
        /\ emitter' = usingEmitter(l, l)
        /\ UNCHANGED <<groups, state, result, rule, data, actual>>

UsingSelf ==
    \E s \in StateNames :
        /\ emitter = NoEmitter
        /\ emitter' = usingSelfEmitter(s)
        /\ UNCHANGED <<groups, state, result, rule, data, actual>>

\* Emit writes neither the emitter nor the LexerState, so a second match
\* would see exactly what the first saw: one match per behaviour.
Applied(gs, st, r) ==
    /\ result = NoResult
    /\ groups' = gs
    /\ state' = st
    /\ result' = r
    /\ UNCHANGED <<emitter, rule, data, actual>>

DefaultState(gs) ==
    LexerState(gs, [i \in 1..NumGroups(gs) |-> AllNames[i]], "good")

EmitByGroups ==
    /\ emitter.kind = "bygroups"
    /\ \E gs \in Matches :
         LET st == DefaultState(gs)
         IN  Applied(gs, st, byGroupsEmitter_Emit(emitter, gs, st))

EmitByGroupNames ==
    /\ emitter.kind = "bygroupnames"
    /\ \E gs \in Matches : \E names \in Namings(NumGroups(gs)) :
         LET st == LexerState(gs, names, "good")
         IN  Applied(gs, st, byGroupNamesEmitter_Emit(emitter, gs, st))

EmitUsingByGroup ==
    /\ emitter.kind = "usingbygroup"
    /\ \E gs \in Matches :
         LET st == DefaultState(gs)
         IN  Applied(gs, st, usingByGroup_Emit(emitter, gs, st))

EmitUsing ==
    /\ emitter.kind = "using"
    /\ \E gs \in Matches :
         LET st == DefaultState(gs)
         IN  Applied(gs, st, usingEmitter_Emit(emitter, gs, st))

EmitUsingSelf ==
    /\ emitter.kind = "usingself"
    /\ \E gs \in Matches : \E l \in Lexers :
         LET st == LexerState(gs, [i \in 1..NumGroups(gs) |-> AllNames[i]], l)
         IN  Applied(gs, st, usingSelfEmitter_Emit(emitter, gs, st))

Init ==
    /\ emitter = NoEmitter
    /\ groups = <<>>
    /\ state = NoState
    /\ result = NoResult
    /\ Idle

Next ==
    \/ ByGroups
    \/ ByGroupNames
    \/ UsingByGroup
    \/ Using
    \/ UsingSelf
    \/ EmitByGroups
    \/ EmitByGroupNames
    \/ EmitUsingByGroup
    \/ EmitUsing
    \/ EmitUsingSelf

Spec == Init /\ [][Next]_vars

(***************************************************************************)
(* Serialisation (serialise.go).  An XML element is its name, its          *)
(* attributes in order and its child elements in order; encoding/xml       *)
(* escapes attribute values on the way out and unescapes them on the way   *)
(* in.                                                                     *)
(***************************************************************************)
Attr(n, v) == [name |-> n, value |-> v]

Element(n, attrs, children) == [name |-> n, attrs |-> attrs, children |-> children]

HasAttr(el, n) == \E k \in DOMAIN el.attrs : el.attrs[k].name = n

AttrValue(el, n) ==
    el.attrs[CHOOSE k \in DOMAIN el.attrs :
                 el.attrs[k].name = n /\ \A j \in 1..(k - 1) : el.attrs[j].name # n].value

Encoded(els) == [err |-> "", elems |-> els]

EncodeError(msg) == [err |-> msg, elems |-> <<>>]

Decoded(v) == [err |-> "", value |-> v]

DecodeError(msg) == [err |-> msg, value |-> NoRule]

\* a plain function value: EmitterFunc, or what UsingByGroup returns
EmitterFunc == [kind |-> "func"]

MutatorFunc == [kind |-> "func"]

NilMutator == [kind |-> "nil"]

\* the kinds in emitterTemplates and mutatorTemplates
EmitterKinds == {"bygroups", "bygroupnames", "using", "usingself", "token"}

MutatorKinds == {"include", "combined", "multi", "push", "pop"}

\* r.Type.(SerialisableEmitter): the types that have an EmitterKind method
IsSerialisableEmitter(e) == e.kind \in EmitterKinds

IsSerialisableMutator(m) == m.kind \in MutatorKinds

\* _TokenType_map: every token type has one canonical name, the name of its
\* constant
AllTokenTypes == TokenTypes \cup {"Error"}

TokenTypeMap == [t \in AllTokenTypes |-> t]

TokenType_String(t) == TokenTypeMap[t]

\* TokenType.MarshalXML: <start type="..."></start>
TokenType_MarshalXML(t, start) ==
    Encoded(<<Element(start, <<Attr("type", TokenType_String(t))>>, <<>>)>>)

\* TokenType.UnmarshalXML: the type whose name is the type attribute
TokenType_UnmarshalXML(el) ==
    LET text == IF HasAttr(el, "type") THEN AttrValue(el, "type") ELSE ""
    IN  IF \E tt \in DOMAIN TokenTypeMap : TokenTypeMap[tt] = text
        THEN Decoded(TokenType(CHOOSE tt \in DOMAIN TokenTypeMap : TokenTypeMap[tt] = text))
        ELSE DecodeError("unknown TokenType")

RECURSIVE EncodeEmitter(_, _)
RECURSIVE EncodeEmitters(_, _, _)

\* the elements of a []Emitter field, each under the field's tag
EncodeEmitters(es, tag, i) ==
    IF i > Len(es) THEN Encoded(<<>>)
    ELSE LET first == EncodeEmitter(es[i], tag)
         IN  IF first.err # "" THEN first
             ELSE LET rest == EncodeEmitters(es, tag, i + 1)
                  IN  IF rest.err # "" THEN rest
                      ELSE Encoded(first.elems \o rest.elems)

\* Encoder.EncodeElement on an Emitter value under the name start.
\*   nil interface value      : nothing is written
\*   TokenType                : its MarshalXML
\*   *byGroupsEmitter         : Emitters []Emitter `xml:"emit"`
\*   *byGroupNamesEmitter     : Emitters map[string]Emitter `xml:"emitters"`;
\*                              encoding/xml marshals no map
\*   *usingEmitter            : Lexer string `xml:"lexer,attr"`, lexer `xml:"-"`
\*   *usingSelfEmitter        : State string `xml:"state,attr"`
\*   a func value             : encoding/xml marshals no func
EncodeEmitter(e, start) ==
    CASE e.kind = "nil" -> Encoded(<<>>)
      [] e.kind = "token" -> TokenType_MarshalXML(e.type, start)
      [] e.kind = "bygroups" ->
            LET inner == EncodeEmitters(e.Emitters, "emit", 1)
            IN  IF inner.err # "" THEN inner
                ELSE Encoded(<<Element(start, <<>>, inner.elems)>>)
      [] e.kind = "bygroupnames" ->
            EncodeError("xml: unsupported type: map[string]chroma.Emitter")
      [] e.kind = "using" -> Encoded(<<Element(start, <<Attr("lexer", e.Lexer)>>, <<>>)>>)
      [] e.kind = "usingself" ->
            Encoded(<<Element(start, <<Attr("state", e.State)>>, <<>>)>>)
      [] OTHER -> EncodeError("xml: unsupported type: chroma.EmitterFunc")

Children(el, tag) == SelectSeq(el.children, LAMBDA c : c.name = tag)

\* Decoder.DecodeElement into a new value of the template's type.  An element
\* that maps to a field of interface type is skipped by encoding/xml: each
\* <emit> child appends a nil Emitter to byGroupsEmitter.Emitters.  The
\* unexported usingEmitter.lexer is not looked up.
DecodeEmitter(el) ==
    CASE el.name = "token" -> TokenType_UnmarshalXML(el)
      [] el.name = "bygroups" ->
            Decoded(byGroupsEmitter([i \in 1..Len(Children(el, "emit")) |-> NilEmitter]))
      [] el.name = "bygroupnames" ->
            IF Children(el, "emitters") = <<>>
            THEN Decoded(byGroupNamesEmitter(<<>>))
            ELSE DecodeError("xml: unknown type map[string]chroma.Emitter")
      [] el.name = "using" ->
            Decoded(usingEmitter(IF HasAttr(el, "lexer") THEN AttrValue(el, "lexer") ELSE "",
                                 NilLexer))
      [] el.name = "usingself" ->
            Decoded(usingSelfEmitter(IF HasAttr(el, "state") THEN AttrValue(el, "state")
                                     ELSE ""))

(***************************************************************************)
(* Mutators.                                                               *)
(***************************************************************************)
pushMutator(states) == [kind |-> "push", States |-> states]

popMutator(depth) == [kind |-> "pop", Depth |-> depth]

includeMutator(st) == [kind |-> "include", State |-> st]

combinedMutator(states) == [kind |-> "combined", States |-> states]

multiMutator(ms) == [kind |-> "multi", Mutators |-> ms]

MaxDepth == 2

StateElements(states) == [i \in 1..Len(states) |-> Element("state", <<Attr("name", states[i])>>, <<>>)]

StatesOf(el) ==
    LET cs == Children(el, "state") IN [i \in 1..Len(cs) |-> AttrValue(cs[i], "name")]

RECURSIVE EncodeMutator(_, _)
EncodeMutator(m, start) ==
    CASE m.kind = "push" -> Element(start, <<>>, StateElements(m.States))
      [] m.kind = "pop" -> Element(start, <<Attr("depth", ToString(m.Depth))>>, <<>>)
      [] m.kind = "include" -> Element(start, <<Attr("state", m.State)>>, <<>>)
      [] m.kind = "combined" -> Element(start, <<>>, StateElements(m.States))
      [] m.kind = "multi" ->
            Element(start, <<>>,
                    [i \in 1..Len(m.Mutators) |->
                        EncodeMutator(m.Mutators[i], m.Mutators[i].kind)])

RECURSIVE DecodeMutator(_)
DecodeMutator(el) ==
    CASE el.name = "push" -> pushMutator(StatesOf(el))
      [] el.name = "pop" ->
            popMutator(CHOOSE d \in 0..MaxDepth : ToString(d) = AttrValue(el, "depth"))
      [] el.name = "include" -> includeMutator(AttrValue(el, "state"))
      [] el.name = "combined" -> combinedMutator(StatesOf(el))
      [] el.name = "multi" ->
            multiMutator([i \in 1..Len(el.children) |-> DecodeMutator(el.children[i])])

(***************************************************************************)
(* Rule and Rules.                                                         *)
(***************************************************************************)
Rule(pattern, type, mutator) ==
    [kind |-> "Rule", Pattern |-> pattern, Type |-> type, Mutator |-> mutator]

\* Rule.MarshalXML
Rule_MarshalXML(r) ==
    LET attrs == IF r.Pattern # "" THEN <<Attr("pattern", r.Pattern)>> ELSE <<>>
        type  == IF r.Type # NilEmitter /\ IsSerialisableEmitter(r.Type)
                 THEN EncodeEmitter(r.Type, r.Type.kind)
                 ELSE Encoded(<<>>)
        mut   == IF r.Mutator # NilMutator /\ IsSerialisableMutator(r.Mutator)
                 THEN <<EncodeMutator(r.Mutator, r.Mutator.kind)>>
                 ELSE <<>>
    IN  IF type.err # "" THEN type
        ELSE Encoded(<<Element("rule", attrs, type.elems \o mut)>>)

RECURSIVE decodeChildren(_, _, _)
\* the token loop of Rule.UnmarshalXML over the children of <rule>; an
\* element of neither table is passed over
decodeChildren(r, cs, i) ==
    IF i > Len(cs) THEN Decoded(r)
    ELSE IF cs[i].name \in EmitterKinds
         THEN IF r.Type # NilEmitter THEN DecodeError("duplicate emitter")
              ELSE LET d == DecodeEmitter(cs[i])
                   IN  IF d.err # "" THEN d
                       ELSE decodeChildren([r EXCEPT !.Type = d.value], cs, i + 1)
         ELSE IF cs[i].name \in MutatorKinds
         THEN IF r.Mutator # NilMutator THEN DecodeError("duplicate mutator")
              ELSE decodeChildren([r EXCEPT !.Mutator = DecodeMutator(cs[i])], cs, i + 1)
         ELSE decodeChildren(r, cs, i + 1)

\* Rule.UnmarshalXML into a zero Rule
Rule_UnmarshalXML(el) ==
    LET pattern == IF HasAttr(el, "pattern") THEN AttrValue(el, "pattern") ELSE ""
    IN  decodeChildren(Rule(pattern, NilEmitter, NilMutator), el.children, 1)

\* Rules is a map from state name to []Rule
Rules(m) == [kind |-> "Rules", states |-> m]

RECURSIVE encodeStates(_, _, _)
encodeStates(m, order, i) ==
    IF i > Len(order) THEN Encoded(<<>>)
    ELSE LET rules == m[order[i]]
             rs    == [k \in 1..Len(rules) |-> Rule_MarshalXML(rules[k])]
             rest  == encodeStates(m, order, i + 1)
         IN  IF \E k \in DOMAIN rs : rs[k].err # ""
             THEN rs[CHOOSE k \in DOMAIN rs : rs[k].err # ""
                                              /\ \A j \in 1..(k - 1) : rs[j].err = ""]
             ELSE IF rest.err # "" THEN rest
             ELSE Encoded(<<Element("state", <<Attr("name", order[i])>>,
                                    [k \in 1..Len(rules) |-> rs[k].elems[1]])>>
                          \o rest.elems)

\* Rules.MarshalXML: the states in the order the map is ranged over
Rules_MarshalXML(r, order) ==
    LET sts == encodeStates(r.states, order, 1)
    IN  IF sts.err # "" THEN sts ELSE Encoded(<<Element("rules", <<>>, sts.elems)>>)

RECURSIVE decodeStates(_, _, _)
decodeStates(m, sts, i) ==
    IF i > Len(sts) THEN Decoded(Rules(m))
    ELSE LET rs  == Children(sts[i], "rule")
             ds  == [k \in 1..Len(rs) |-> Rule_UnmarshalXML(rs[k])]
             nm  == AttrValue(sts[i], "name")
         IN  IF \E k \in DOMAIN ds : ds[k].err # ""
             THEN DecodeError("decoding a rule failed")
             ELSE decodeStates([n \in DOMAIN m \cup {nm} |->
                                   IF n = nm THEN [k \in 1..Len(ds) |-> ds[k].value]
                                   ELSE m[n]],
                               sts, i + 1)

\* Rules.UnmarshalXML into an empty map: (*r)[state.Name] = state.Rules
Rules_UnmarshalXML(el) == decodeStates(<<>>, Children(el, "state"), 1)

(***************************************************************************)
(* Actions of SpecSer: a Rule or a Rules table is built, marshalled, and   *)
(* the XML is unmarshalled into a zero value.                              *)
(***************************************************************************)
Patterns == {"", "\\d+"}

NestedEmitters == {NilEmitter, EmitterFunc} \cup {TokenType(t) : t \in TokenTypes}

TypeErasedEmitters == {EmitterFunc, usingByGroup(1, 2, <<TokenType("Text"), TokenType("Text")>>)}

RuleEmitters ==
    {NilEmitter} \cup TypeErasedEmitters
        \cup {TokenType(t) : t \in TokenTypes}
        \cup {byGroupsEmitter(es) : es \in SeqsUpTo(NestedEmitters, MaxGroups)}
        \cup {byGroupNamesEmitter(m) : m \in [{"x"} -> {TokenType(t) : t \in TokenTypes}]}
        \cup {usingEmitter(l, l) : l \in Lexers}
        \cup {usingSelfEmitter(st) : st \in StateNames}

RuleMutators ==
    {NilMutator, MutatorFunc, includeMutator("String"), pushMutator(<<"String">>),
     pushMutator(<<"root", "block">>), combinedMutator(<<"root", "block">>),
     multiMutator(<<pushMutator(<<"block">>), popMutator(1)>>)}
        \cup {popMutator(d) : d \in 1..MaxDepth}

NewRule ==
    \E p \in Patterns, e \in RuleEmitters, m \in RuleMutators :
        /\ rule = NoRule
        /\ rule' = Rule(p, e, m)
        /\ UNCHANGED <<emitter, groups, state, result, data, actual>>

MarshalRule ==
    /\ rule.kind = "Rule"
    /\ data = NoData
    /\ data' = Rule_MarshalXML(rule)
    /\ UNCHANGED <<emitter, groups, state, result, rule, actual>>

UnmarshalRule ==
    /\ rule.kind = "Rule"
    /\ data.err = ""
    /\ actual = NoData
    /\ actual' = Rule_UnmarshalXML(data.elems[1])
    /\ UNCHANGED <<emitter, groups, state, result, rule, data>>

\* the rules of a table: those of TestRuleSerialisation and a ByGroups rule
TableRules ==
    {Rule("", NilEmitter, includeMutator("String")),
     Rule("\\d+", TokenType("Text"), NilMutator),
     Rule("q", TokenType("Keyword"), pushMutator(<<"String">>)),
     Rule("(a)(b)", byGroupsEmitter(<<TokenType("Keyword"), TokenType("Text")>>),
          popMutator(1))}

MaxRules == 2

Tables ==
    UNION {[K -> UNION {SeqsOfLen(TableRules, n) : n \in 1..MaxRules}] :
              K \in SUBSET StateNames}

\* the orders in which a map with the keys of m can be ranged over
Orders(m) ==
    {o \in SeqsOfLen(DOMAIN m, Cardinality(DOMAIN m)) : Range(o) = DOMAIN m}

NewRules ==
    \E m \in Tables :
        /\ rule = NoRule
        /\ rule' = Rules(m)
        /\ UNCHANGED <<emitter, groups, state, result, data, actual>>

MarshalRules ==
    /\ rule.kind = "Rules"
    /\ data = NoData
    /\ \E order \in Orders(rule.states) : data' = Rules_MarshalXML(rule, order)
    /\ UNCHANGED <<emitter, groups, state, result, rule, actual>>

UnmarshalRules ==
    /\ rule.kind = "Rules"
    /\ data.err = ""
    /\ actual = NoData
    /\ actual' = Rules_UnmarshalXML(data.elems[1])
    /\ UNCHANGED <<emitter, groups, state, result, rule, data>>

SerNext ==
    \/ NewRule
    \/ MarshalRule
    \/ UnmarshalRule
    \/ NewRules
    \/ MarshalRules
    \/ UnmarshalRules

SpecSer == Init /\ [][SerNext]_vars

(***************************************************************************)
(* Properties of the emitters (checked under Spec).                        *)
(***************************************************************************)
Emitted == result # NoResult

ArityMatches(es) == Len(es) = NumGroups(groups)

RECURSIVE Values(_)
\* the concatenation of the texts of a token sequence
Values(toks) == IF toks = <<>> THEN "" ELSE Head(toks).Value \o Values(Tail(toks))

ErrorToken(text) == [Type |-> "Error", Value |-> text]

\* the tokens emitter e yields for capture group i alone; nothing when absent
OnGroup(e, i) ==
    IF e = NilEmitter THEN <<>> ELSE EmitterEmit(e, <<groups[i + 1]>>, state)

CallsOf(fn) == {k \in DOMAIN result.calls : result.calls[k].fn = fn}

\* C1: a ByGroups emitter whose emitter count differs from the number of
\* capture groups emits exactly one token, of category Error, whose text is
\* the whole match; it applies none of its emitters and does not panic.
C1_ByGroupsMismatchIsOneErrorToken ==
    (emitter.kind = "bygroups" /\ Emitted /\ ~ArityMatches(emitter.Emitters)) =>
        /\ result.panic = ""
        /\ ~result.aborted
        /\ result.tokens = <<ErrorToken(groups[1])>>
        /\ CallsOf("Emit") = {}

C1_Witness ==
    /\ emitter.kind = "bygroups"
    /\ Len(emitter.Emitters) = 1
    /\ NumGroups(groups) = 2
    /\ groups[1] = "a-b"
    /\ result.tokens = <<ErrorToken("a-b")>>

RECURSIVE InGroupOrder(_, _)
InGroupOrder(es, i) ==
    IF i > Len(es) THEN <<>> ELSE OnGroup(es[i], i) \o InGroupOrder(es, i + 1)

\* C4: a ByGroups emitter with one emitter per capture group emits, for
\* i = 1..N in increasing order, what emitter i yields for group i alone;
\* an absent emitter contributes nothing, and every emitter that is applied
\* is handed the one-element list of its own group, never group 0 or
\* another group.
C4_ByGroupsAppliesEmitterToItsGroup ==
    (emitter.kind = "bygroups" /\ Emitted /\ ArityMatches(emitter.Emitters)) =>
        /\ result.panic = ""
        /\ ~result.aborted
        /\ result.tokens = InGroupOrder(emitter.Emitters, 1)
        /\ CallsOf("Emit") = DOMAIN result.calls
        /\ {result.calls[k].who : k \in DOMAIN result.calls}
             = {i \in 1..NumGroups(groups) : emitter.Emitters[i] # NilEmitter}
        /\ \A k \in DOMAIN result.calls :
             /\ result.calls[k].arg = <<groups[result.calls[k].who + 1]>>
             /\ \A j \in DOMAIN result.calls :
                  j < k => result.calls[j].who < result.calls[k].who

C4_Witness ==
    /\ emitter.kind = "bygroups"
    /\ emitter.Emitters = <<TokenType("Keyword"), NilEmitter>>
    /\ groups = <<"-ab", "a", "b">>
    /\ result.tokens = <<[Type |-> "Keyword", Value |-> "a"]>>

\* what ByGroupNames owes capture group i, resolved by the group's name
ForNamedGroup(i) ==
    LET name == state.GroupNames[i]
    IN  IF name \notin DOMAIN emitter.Emitters THEN <<ErrorToken(groups[i + 1])>>
        ELSE OnGroup(emitter.Emitters[name], i)

RECURSIVE NamedInGroupOrder(_)
NamedInGroupOrder(i) ==
    IF i > NumGroups(groups) THEN <<>> ELSE ForNamedGroup(i) \o NamedInGroupOrder(i + 1)

\* C5: for a match with at least one capture group a ByGroupNames emitter
\* handles the groups in group-number order, each resolved by its name: no
\* entry for the name gives one Error token with the group's text (and the
\* remaining groups are still handled), an absent (nil) entry gives nothing,
\* any other entry is applied to that group's text alone.
C5_ByGroupNamesResolvesByName ==
    (emitter.kind = "bygroupnames" /\ Emitted /\ NumGroups(groups) >= 1) =>
        /\ result.panic = ""
        /\ ~result.aborted
        /\ result.tokens = NamedInGroupOrder(1)
        /\ \A k \in DOMAIN result.calls :
             /\ result.calls[k].arg = <<groups[result.calls[k].who + 1]>>
             /\ result.calls[k].key = state.GroupNames[result.calls[k].who]
             /\ result.calls[k].fn =
                   IF result.calls[k].key \in DOMAIN emitter.Emitters
                   THEN "Emit" ELSE "Error.Emit"

\* the first group, named y, has no entry; the second, named x, has one
C5_Witness ==
    /\ emitter.kind = "bygroupnames"
    /\ DOMAIN emitter.Emitters = {"x"}
    /\ emitter.Emitters["x"] = TokenType("Text")
    /\ state.GroupNames = <<"y", "x">>
    /\ groups = <<"ab", "a", "b">>
    /\ result.tokens = <<ErrorToken("a"), [Type |-> "Text", Value |-> "b"]>>

MismatchMessage ==
    "UsingByGroup expects number of emitters to be the same as len(groups)-1"

\* C7 as stated: a using-by-group emitter with the wrong number of fallback
\* emitters is rejected when it is constructed, so no match is ever handed to
\* one.
C7_MismatchRejectedAtConstruction ==
    ~(emitter.kind = "usingbygroup" /\ Emitted /\ ~ArityMatches(emitter.emitters))

\* C7 amended: the constructor accepts any number of fallback emitters; the
\* mismatch is fatal when the emitter is applied to a match: Emit panics
\* before it calls the resolver, a fallback emitter or a sublexer, and yields
\* no token, in particular no Error token.
C7_MismatchPanicsAtEmit ==
    (emitter.kind = "usingbygroup" /\ Emitted /\ ~ArityMatches(emitter.emitters)) =>
        /\ result.panic = MismatchMessage
        /\ result.calls = <<>>
        /\ result.iterators = <<>>
        /\ result.tokens = <<>>

C7_Witness ==
    /\ emitter.kind = "usingbygroup"
    /\ Len(emitter.emitters) = 1
    /\ NumGroups(groups) = 2
    /\ result.panic = MismatchMessage

Delegating == emitter.kind \in {"using", "usingself", "usingbygroup"}

\* C8: when the Tokenise call a Using, UsingSelf or UsingByGroup emitter
\* makes returns an error, Emit panics with that error and yields nothing:
\* no Error token, and nothing of what the other groups had produced.
C8_NestedFailureIsFatal ==
    (Delegating /\ Emitted) =>
        \A k \in CallsOf("Tokenise") :
            LET r == Tokenise(result.calls[k].key, result.calls[k].arg[1])
            IN  r.err # "" =>
                  /\ result.panic = r.err
                  /\ result.tokens = <<>>
                  /\ result.iterators = <<>>

\* the sublexer fails on the second group after the first group's fallback
\* emitter was applied
C8_Witness ==
    /\ emitter.kind = "usingbygroup"
    /\ emitter.codeGroup = 2
    /\ CallsOf("Emit") # {}
    /\ CallsOf("Tokenise") # {}
    /\ result.panic = "tokenise failed"
    /\ result.tokens = <<>>

UsingByGroupApplies ==
    /\ emitter.kind = "usingbygroup"
    /\ Emitted
    /\ ArityMatches(emitter.emitters)
    /\ emitter.sublexerNameGroup <= NumGroups(groups)
    /\ emitter.codeGroup <= NumGroups(groups)

Sublexer == Get(groups[emitter.sublexerNameGroup + 1])

\* what UsingByGroup owes capture group i
ForUsingGroup(i) ==
    IF i = emitter.codeGroup /\ Sublexer # NilLexer
    THEN Tokenise(Sublexer, groups[i + 1]).it.toks
    ELSE OnGroup(emitter.emitters[i], i)

RECURSIVE UsingInGroupOrder(_)
UsingInGroupOrder(i) ==
    IF i > NumGroups(groups) THEN <<>> ELSE ForUsingGroup(i) \o UsingInGroupOrder(i + 1)

\* C6: a UsingByGroup emitter with matching arity calls the resolver exactly
\* once, with the text of the sublexer-name group; with no lexer every group
\* is emitted by its own fallback emitter; with a lexer the code group's
\* tokens are those of the lexer run on the code group's text, its fallback
\* emitter is not applied, and the other groups are emitted by their own
\* fallback emitters; the results are concatenated in group order.
C6_UsingByGroupDelegatesCodeGroup ==
    (UsingByGroupApplies /\ Tokenise(Sublexer, groups[emitter.codeGroup + 1]).err = "") =>
        /\ Cardinality(CallsOf("Get")) = 1
        /\ \A k \in CallsOf("Get") :
             result.calls[k].arg = <<groups[emitter.sublexerNameGroup + 1]>>
        /\ Sublexer # NilLexer =>
             \A k \in CallsOf("Emit") : result.calls[k].who # emitter.codeGroup
        /\ result.panic = ""
        /\ ~result.aborted
        /\ result.tokens = UsingInGroupOrder(1)

\* C10: every iterator a UsingByGroup emitter with matching arity hands to
\* Concaterator is a valid (non-nil) iterator, also when fallback emitters
\* are absent.
C10_NoNilIteratorIsConcatenated ==
    (emitter.kind = "usingbygroup" /\ Emitted /\ result.panic = "") =>
        \A k \in DOMAIN result.iterators : result.iterators[k].valid

Grouping == emitter.kind \in {"bygroups", "bygroupnames", "usingbygroup"}

\* C3 as stated: the texts of the tokens a ByGroups, ByGroupNames or
\* UsingByGroup emitter emits for a match concatenate to the matched text.
C3_TokensCoverTheMatch ==
    (Grouping /\ Emitted /\ result.panic = "") => Values(result.tokens) = groups[1]

\* whether capture group i is handed to an emitter or a sublexer
Handled(i) ==
    CASE emitter.kind = "bygroups" -> emitter.Emitters[i] # NilEmitter
      [] emitter.kind = "bygroupnames" ->
            (state.GroupNames[i] \in DOMAIN emitter.Emitters
                => emitter.Emitters[state.GroupNames[i]] # NilEmitter)
      [] emitter.kind = "usingbygroup" ->
            \/ i = emitter.codeGroup /\ Sublexer # NilLexer
            \/ emitter.emitters[i] # NilEmitter

\* the stream of a UsingByGroup emitter ends at its first nil iterator
Reached(i) ==
    emitter.kind = "usingbygroup" => \A j \in 1..(i - 1) : Handled(j)

RECURSIVE HandledText(_)
HandledText(i) ==
    IF i > NumGroups(groups) THEN ""
    ELSE (IF Handled(i) /\ Reached(i) THEN groups[i + 1] ELSE "") \o HandledText(i + 1)

RECURSIVE GroupsText(_)
GroupsText(i) ==
    IF i > NumGroups(groups) THEN "" ELSE groups[i + 1] \o GroupsText(i + 1)

\* the emitter applies something to the whole match: ByGroups on an arity
\* mismatch, ByGroupNames on a match without capture groups
WholeMatchCase ==
    \/ emitter.kind = "bygroups" /\ ~ArityMatches(emitter.Emitters)
    \/ emitter.kind = "bygroupnames" /\ NumGroups(groups) = 0

\* C3 amended: the texts of the emitted tokens concatenate to the texts, in
\* group order, of the capture groups that are handed to an emitter or a
\* sublexer (for UsingByGroup: of those before the first group left with a
\* nil iterator).  Text of the match outside the capture groups and groups
\* whose emitter is absent are not emitted; the result is the matched text
\* when the groups tile the match and all are handled, and when the emitter
\* is applied to the whole match.
C3_TokensCoverTheHandledGroups ==
    (Grouping /\ Emitted /\ result.panic = "") =>
        /\ WholeMatchCase => Values(result.tokens) = groups[1]
        /\ ~WholeMatchCase =>
             /\ Values(result.tokens) = HandledText(1)
             /\ (GroupsText(1) = groups[1] /\ \A i \in 1..NumGroups(groups) : Handled(i))
                   => Values(result.tokens) = groups[1]

\* the groups do not tile the match and the second has no emitter
C3_Witness ==
    /\ emitter.kind = "bygroups"
    /\ emitter.Emitters = <<TokenType("Text"), NilEmitter>>
    /\ groups = <<"a-b", "a", "b">>
    /\ Values(result.tokens) = "a"

(***************************************************************************)
(* Properties of the serialisation (checked under SpecSer).                *)
(***************************************************************************)
\* structural equality of rules: variant and parameters; the lexer a
\* usingEmitter holds besides its name is left out of the comparison
Forget(r) ==
    IF r.Type.kind = "using" THEN [r EXCEPT !.Type.lexer = NilLexer] ELSE r

SameRule(a, b) == Forget(a) = Forget(b)

SameRules(a, b) ==
    /\ DOMAIN a.states = DOMAIN b.states
    /\ \A n \in DOMAIN a.states :
         /\ Len(a.states[n]) = Len(b.states[n])
         /\ \A k \in DOMAIN a.states[n] : SameRule(a.states[n][k], b.states[n][k])

NamedEmitter(e) ==
    /\ e.kind \in EmitterKinds \cup {"nil"}
    /\ e.kind = "bygroups" =>
         \A i \in DOMAIN e.Emitters : e.Emitters[i].kind \in EmitterKinds \cup {"nil"}

NamedMutator(m) == m.kind \in MutatorKinds \cup {"nil"}

\* built only from the named emitter and mutator variants
Serialisable(r) ==
    IF r.kind = "Rule" THEN NamedEmitter(r.Type) /\ NamedMutator(r.Mutator)
    ELSE \A n \in DOMAIN r.states : \A k \in DOMAIN r.states[n] :
            NamedEmitter(r.states[n][k].Type) /\ NamedMutator(r.states[n][k].Mutator)

\* C2: for a Rule or a Rules table built only from the named emitter and
\* mutator variants, encoding succeeds, decoding the XML succeeds, and the
\* decoded value is structurally equal to the original.
C2_RoundTrip ==
    (rule # NoRule /\ Serialisable(rule)) =>
        /\ data # NoData => data.err = ""
        /\ actual # NoData =>
             /\ actual.err = ""
             /\ IF rule.kind = "Rule" THEN SameRule(actual.value, rule)
                ELSE SameRules(actual.value, rule)

ErasedEmitter(r) == r.Type.kind \notin EmitterKinds \cup {"nil"}

ErasedMutator(r) == r.Mutator.kind \notin MutatorKinds \cup {"nil"}

\* the rule with its type-erased components absent
Without(r) ==
    [r EXCEPT !.Type = IF ErasedEmitter(r) THEN NilEmitter ELSE @,
              !.Mutator = IF ErasedMutator(r) THEN NilMutator ELSE @]

ChildKinds(el) == {el.children[k].name : k \in DOMAIN el.children}

\* C9: encoding a Rule whose emitter (or mutator) is a plain function value
\* fails or writes no emission (mutator) element at all, the pattern and the
\* other component are encoded as they are without it, and decoding yields
\* the same rule with that component absent.
C9_TypeErasedIsOmitted ==
    (rule.kind = "Rule" /\ (ErasedEmitter(rule) \/ ErasedMutator(rule))) =>
        /\ (data # NoData /\ data.err = "") =>
             /\ ErasedEmitter(rule) => ChildKinds(data.elems[1]) \cap EmitterKinds = {}
             /\ ErasedMutator(rule) => ChildKinds(data.elems[1]) \cap MutatorKinds = {}
             /\ data = Rule_MarshalXML(Without(rule))
        /\ actual # NoData =>
             /\ actual.err = ""
             /\ SameRule(actual.value, Without(rule))

====
